---------------------------- MODULE Spec2Model ----------------------------
(***************************************************************************)
(* A model of src/app.py: the response parser try_extract_json, the        *)
(* extraction orchestrator extract_and_format_csv with its /extract route, *)
(* and the /save route that appends to data/results.csv.                   *)
(*                                                                         *)
(* A text is a sequence of lexical units: single characters (braces,       *)
(* brackets, colon, comma, a blank, the digits 0 and 1; the backtick is    *)
(* written bt, the double quote dq, the line break lf) and words that the  *)
(* code never looks inside (json, true, false, null, and the names x, k,   *)
(* data, confidence).  A decoded JSON value is kept as its text without    *)
(* the insignificant whitespace; Python's None is the one-unit value None. *)
(***************************************************************************)
EXTENDS Integers, Sequences, FiniteSets, TLC

(***************************************************************************)
(* Bounds of the model.                                                    *)
(***************************************************************************)
MaxDepth == 2
MaxCols == 5
MaxRows == 2

(***************************************************************************)
(* Lexical units.                                                          *)
(***************************************************************************)
Q == "dq"
BT == "bt"
SP == " "
NL == "lf"
Whitespace == {SP, NL}
Digits == {"0", "1"}
None == <<"None">>

\* The index of the first unit at or after i that is not whitespace
\* (Len(s) + 1 when there is none): what \s* and json's whitespace skip do.
SkipWs(s, i) ==
    CHOOSE j \in i..(Len(s) + 1) :
        /\ (j = Len(s) + 1 \/ s[j] \notin Whitespace)
        /\ \A k \in i..(j - 1) : s[k] \in Whitespace

\* str.strip(): leading and trailing whitespace removed.
strip(s) ==
    LET a == SkipWs(s, 1)
        b == IF a > Len(s) THEN 0
             ELSE CHOOSE j \in a..Len(s) :
                      /\ s[j] \notin Whitespace
                      /\ \A k \in (j + 1)..Len(s) : s[k] \in Whitespace
    IN  IF a > Len(s) THEN <<>> ELSE SubSeq(s, a, b)

(***************************************************************************)
(* json.loads: a recursive-descent decoder of the JSON grammar over the    *)
(* units above.  A result is [ok, end, val]: end is the index after the    *)
(* value, val the value's text without insignificant whitespace.           *)
(***************************************************************************)
Fail == [ok |-> FALSE, end |-> 0, val |-> <<>>]

\* A string runs to the next quote; a raw line break inside it is an error.
ParseString(s, i) ==
    LET closing == {j \in (i + 1)..Len(s) : s[j] = Q}
    IN  IF closing = {} THEN Fail
        ELSE LET j == CHOOSE c \in closing : \A d \in closing : c <= d
             IN  IF \E k \in (i + 1)..(j - 1) : s[k] = NL THEN Fail
                 ELSE [ok |-> TRUE, end |-> j + 1, val |-> SubSeq(s, i, j)]

ParseNumber(s, i) ==
    IF s[i] = "0" THEN [ok |-> TRUE, end |-> i + 1, val |-> <<"0">>]
    ELSE LET e == CHOOSE j \in (i + 1)..(Len(s) + 1) :
                      /\ (j = Len(s) + 1 \/ s[j] \notin Digits)
                      /\ \A k \in (i + 1)..(j - 1) : s[k] \in Digits
         IN  [ok |-> TRUE, end |-> e, val |-> SubSeq(s, i, e - 1)]

RECURSIVE ParseValue(_, _)
RECURSIVE ParseMembers(_, _, _)
RECURSIVE ParseElements(_, _, _)

ParseMembers(s, i, acc) ==
    IF i > Len(s) \/ s[i] # Q THEN Fail
    ELSE LET key == ParseString(s, i)
         IN  IF ~key.ok THEN Fail
             ELSE LET c == SkipWs(s, key.end)
                  IN  IF c > Len(s) \/ s[c] # ":" THEN Fail
                      ELSE LET v == ParseValue(s, SkipWs(s, c + 1))
                           IN  IF ~v.ok THEN Fail
                               ELSE LET e == SkipWs(s, v.end)
                                        sofar == acc \o key.val \o <<":">> \o v.val
                                    IN  IF e > Len(s) THEN Fail
                                        ELSE IF s[e] = "}"
                                        THEN [ok |-> TRUE, end |-> e + 1,
                                              val |-> sofar \o <<"}">>]
                                        ELSE IF s[e] = ","
                                        THEN ParseMembers(s, SkipWs(s, e + 1),
                                                          sofar \o <<",">>)
                                        ELSE Fail

ParseElements(s, i, acc) ==
    LET v == ParseValue(s, i)
    IN  IF ~v.ok THEN Fail
        ELSE LET e == SkipWs(s, v.end)
                 sofar == acc \o v.val
             IN  IF e > Len(s) THEN Fail
                 ELSE IF s[e] = "]"
                 THEN [ok |-> TRUE, end |-> e + 1, val |-> sofar \o <<"]">>]
                 ELSE IF s[e] = ","
                 THEN ParseElements(s, SkipWs(s, e + 1), sofar \o <<",">>)
                 ELSE Fail

ParseValue(s, i) ==
    IF i > Len(s) THEN Fail
    ELSE IF s[i] = "{"
    THEN LET j == SkipWs(s, i + 1)
         IN  IF j <= Len(s) /\ s[j] = "}"
             THEN [ok |-> TRUE, end |-> j + 1, val |-> <<"{", "}">>]
             ELSE ParseMembers(s, j, <<"{">>)
    ELSE IF s[i] = "["
    THEN LET j == SkipWs(s, i + 1)
         IN  IF j <= Len(s) /\ s[j] = "]"
             THEN [ok |-> TRUE, end |-> j + 1, val |-> <<"[", "]">>]
             ELSE ParseElements(s, j, <<"[">>)
    ELSE IF s[i] = Q THEN ParseString(s, i)
    ELSE IF s[i] \in Digits THEN ParseNumber(s, i)
    ELSE IF s[i] \in {"true", "false", "null"}
    THEN [ok |-> TRUE, end |-> i + 1, val |-> <<s[i]>>]
    ELSE Fail

\* json.loads(s): one value, whitespace around it, nothing else; a failure
\* (ok = FALSE) is json.JSONDecodeError.  The text null decodes to None.
json_loads(s) ==
    LET r == ParseValue(s, SkipWs(s, 1))
    IN  IF r.ok /\ SkipWs(s, r.end) = Len(s) + 1
        THEN [ok |-> TRUE, val |-> IF r.val = <<"null">> THEN None ELSE r.val]
        ELSE [ok |-> FALSE, val |-> None]

(***************************************************************************)
(* re.findall(r'```(?:json)?\s*(\{.*?\})\s*```', content, re.DOTALL)       *)
(***************************************************************************)
IsFence(s, i) ==
    /\ i >= 1
    /\ i + 2 <= Len(s)
    /\ s[i] = BT /\ s[i + 1] = BT /\ s[i + 2] = BT

\* The match of the pattern that starts at i, if there is one: the group
\* runs from the "{" to the first "}" that whitespace and a fence follow.
MatchAt(s, i) ==
    IF ~IsFence(s, i) THEN [ok |-> FALSE, group |-> <<>>, end |-> 0]
    ELSE LET a == i + 3
             b == IF a <= Len(s) /\ s[a] = "json" THEN a + 1 ELSE a
             c == SkipWs(s, b)
         IN  IF c > Len(s) \/ s[c] # "{"
             THEN [ok |-> FALSE, group |-> <<>>, end |-> 0]
             ELSE LET closers == {k \in (c + 1)..Len(s) :
                                     s[k] = "}" /\ IsFence(s, SkipWs(s, k + 1))}
                  IN  IF closers = {}
                      THEN [ok |-> FALSE, group |-> <<>>, end |-> 0]
                      ELSE LET k == CHOOSE x \in closers :
                                        \A y \in closers : x <= y
                           IN  [ok |-> TRUE, group |-> SubSeq(s, c, k),
                                end |-> SkipWs(s, k + 1) + 3]

RECURSIVE findall(_, _)
\* The groups of the non-overlapping matches, leftmost first, from index i.
findall(s, i) ==
    IF i > Len(s) THEN <<>>
    ELSE LET m == MatchAt(s, i)
         IN  IF m.ok THEN <<m.group>> \o findall(s, m.end)
             ELSE findall(s, i + 1)

\* str.find('{') and str.rfind('}') as 1-based indexes, 0 for "not found".
find(s, ch) ==
    LET hits == {i \in 1..Len(s) : s[i] = ch}
    IN  IF hits = {} THEN 0 ELSE CHOOSE i \in hits : \A j \in hits : i <= j

rfind(s, ch) ==
    LET hits == {i \in 1..Len(s) : s[i] = ch}
    IN  IF hits = {} THEN 0 ELSE CHOOSE i \in hits : \A j \in hits : i >= j

RECURSIVE FirstDecoded(_, _)
\* The for loop over the matches: the first group that decodes.
FirstDecoded(matches, n) ==
    IF n > Len(matches) THEN [ok |-> FALSE, val |-> None]
    ELSE LET r == json_loads(strip(matches[n]))
         IN  IF r.ok THEN r ELSE FirstDecoded(matches, n + 1)

\* The second try: the text from the first "{" to the last "}".
BraceScan(content) ==
    LET start == find(content, "{")
        end == rfind(content, "}")
    IN  IF start # 0 /\ end > start
        THEN json_loads(SubSeq(content, start, end))
        ELSE [ok |-> FALSE, val |-> None]

\* The third try: the whole text, stripped.
WholeText(content) == json_loads(strip(content))

try_extract_json(content) ==
    LET first == FirstDecoded(findall(content, 1), 1)
        second == BraceScan(content)
        third == WholeText(content)
    IN  IF first.ok THEN first.val
        ELSE IF second.ok THEN second.val
        ELSE IF third.ok THEN third.val
        ELSE None


\* Python truthiness of a decoded value: None, {}, [], 0, "" and False are
\* falsy ("if not formatted_data", "if formatted_data").
Truthy(v) ==
    v \notin {None, <<"{", "}">>, <<"[", "]">>, <<"0">>, <<Q, Q>>, <<"false">>}

(***************************************************************************)
(* The texts a model may answer with.                                      *)
(***************************************************************************)
Fence == <<BT, BT, BT>>

RECURSIVE NestedObject(_)
\* {"k": 1}, {"k": {"k": 1}}, ...
NestedObject(d) ==
    IF d = 0 THEN <<"{", Q, "k", Q, ":", "1", "}">>
    ELSE <<"{", Q, "k", Q, ":">> \o NestedObject(d - 1) \o <<"}">>

\* {"data": [{"k": "x"}], "confidence": [{"k": 1}]}
ResultObject ==
    <<"{", Q, "data", Q, ":", SP, "[", "{", Q, "k", Q, ":", SP, Q, "x", Q,
      "}", "]", ",", SP, Q, "confidence", Q, ":", SP, "[", "{", Q, "k", Q,
      ":", SP, "1", "}", "]", "}">>

\* {"k": "}```"}: a string value that holds a brace and three backticks.
BacktickObject == <<"{", Q, "k", Q, ":", Q, "}", BT, BT, BT, Q, "}">>

Objects ==
    {<<"{", "}">>, ResultObject, BacktickObject}
        \cup {NestedObject(d) : d \in 0..MaxDepth}

\* Valid JSON that is not an object, and null.
NonObjects ==
    {<<"[", "1", "]">>, <<"[", "]">>, <<"1">>, <<"0">>, <<"1", "0">>,
     <<Q, "x", Q>>, <<Q, Q>>, <<"true">>, <<"false">>, <<"null">>}

\* Text that is no JSON value.
Malformed ==
    {<<>>, <<SP>>, <<"x">>, <<"{">>, <<"}">>, <<"{", "k", ":", "1", "}">>,
     <<"{", Q, "k", Q, ":", "1">>, <<"{", Q, "k", Q, ":", "1", ",", "}">>,
     <<"[", "1">>, <<"0", "1">>, <<"}", "{">>}

\* Prose before a fenced block: nothing, words, inline braces, inline code
\* in single backticks, and a line with three backticks in mid-line.
PreProse ==
    {<<>>, <<"x", NL>>, <<"{", "x", "}", NL>>, <<BT, "x", BT, NL>>,
     <<"x">> \o Fence \o <<"{", "x", "}", NL>>}

PostProse ==
    {<<>>, <<NL, "x">>, <<NL, "{", "x", "}">>, <<NL, BT, "x", BT>>}

FencedTexts ==
    {pre \o Fence \o tag \o gap \o obj \o gap \o Fence \o post :
        pre \in PreProse, tag \in {<<>>, <<"json">>},
        gap \in {<<>>, <<SP>>, <<NL>>}, obj \in Objects, post \in PostProse}

PlainTexts ==
    {pre \o body \o post :
        pre \in {<<>>, <<"x", SP>>}, post \in {<<>>, <<SP, "x">>},
        body \in Objects \cup NonObjects \cup Malformed}

Texts == FencedTexts \cup PlainTexts

(***************************************************************************)
(* State.                                                                  *)
(***************************************************************************)
VARIABLES
    \* try_extract_json applied on its own
    text, parsed, ppc,
    \* one /extract request
    pc, image_data, columns, instructions, column_list, auto_detect_mode,
    extraction_prompt, content, correction_prompt, corrected_content,
    formatted_data, chat_log, parses, outcome, http,
    \* /save requests and data/results.csv
    csv_exists, csv_file, spc, rows, fieldnames, file_exists, buffer, written

parseVars == <<text, parsed, ppc>>
extractVars ==
    <<pc, image_data, columns, instructions, column_list, auto_detect_mode,
      extraction_prompt, content, correction_prompt, corrected_content,
      formatted_data, chat_log, parses, outcome, http>>
saveVars ==
    <<csv_exists, csv_file, spc, rows, fieldnames, file_exists, buffer, written>>
vars == <<parseVars, extractVars, saveVars>>

(***************************************************************************)
(* try_extract_json on a text.                                             *)
(***************************************************************************)
ParseIdle == text = <<>> /\ parsed = None /\ ppc = "idle"

ParseInit == text \in Texts /\ parsed = None /\ ppc = "ready"

Parse ==
    /\ ppc = "ready"
    /\ parsed' = try_extract_json(text)
    /\ ppc' = "parsed"
    /\ UNCHANGED <<text, extractVars, saveVars>>

(***************************************************************************)
(* extract_and_format_csv, called by the /extract route.                   *)
(***************************************************************************)
ColumnNames == <<"name", "email", "phone", "notes", "date", "city", "zip">>

RECURSIVE Joined(_, _)
\* The first n column names, sep between them, as the caller types them.
Joined(n, sep) ==
    IF n = 0 THEN <<>>
    ELSE IF n = 1 THEN <<ColumnNames[1]>>
    ELSE Joined(n - 1, sep) \o sep \o <<ColumnNames[n]>>

ColumnCounts == {n \in 0..MaxCols : n <= Len(ColumnNames)}

\* The request's "columns" string.
ColumnInputs ==
    {Joined(n, sep) : n \in ColumnCounts, sep \in {<<",">>, <<",", SP>>}}
        \cup {<<SP>>, <<",">>, <<SP, "name", SP>>,
              <<"name", ",", ",", "email", ",">>}

\* The request's "instructions" string.
InstructionInputs == {"", "skip the totals row"}

\* The request's "image": absent, bare base64, or a data URL.
ImageInputs ==
    {None, <<"payload">>, <<"data:image/png;base64", ",", "payload">>}

RECURSIVE split(_)
\* str.split(','): the fields between the commas, empty ones included.
split(s) ==
    LET i == find(s, ",")
    IN  IF i = 0 THEN <<s>>
        ELSE <<SubSeq(s, 1, i - 1)>> \o split(SubSeq(s, i + 1, Len(s)))

\* [col.strip() for col in columns.split(',') if col.strip()]
\*     if columns.strip() else []
ColumnList(cols) ==
    IF strip(cols) = <<>> THEN <<>>
    ELSE LET fields == split(cols)
             NonBlank(f) == strip(f) # <<>>
             kept == SelectSeq(fields, NonBlank)
         IN  [i \in 1..Len(kept) |-> strip(kept[i])]

\* The keys of the example rows of the auto-detect prompts.
PlaceholderHeaders ==
    <<<<"header1">>, <<"header2">>, <<"header3">>, <<"header4">>>>

\* The f-strings of fixed mode index column_list[0] .. column_list[3]:
\* a shorter list raises IndexError while the prompt is being built.
PromptBuilds(cl) == Len(cl) = 0 \/ Len(cl) >= 4

ExampleHeaders(cl) ==
    IF Len(cl) = 0 THEN PlaceholderHeaders ELSE <<cl[1], cl[2], cl[3], cl[4]>>

NoPrompt ==
    [kind |-> "none", mode |-> "", required |-> <<>>, instructions |-> "",
     previous |-> <<>>, example |-> <<>>]

\* The extraction prompt: its "Required columns" line, the "Additional
\* instructions" line and the keys of the example rows.
ExtractionPrompt(cl, instr) ==
    [kind |-> "extraction",
     mode |-> IF Len(cl) = 0 THEN "auto" ELSE "fixed",
     required |-> cl, instructions |-> instr, previous |-> <<>>,
     example |-> ExampleHeaders(cl)]

\* The correction prompt: the previous response and the same example.
CorrectionPrompt(cl, prev) ==
    [kind |-> "correction",
     mode |-> IF Len(cl) = 0 THEN "auto" ELSE "fixed",
     required |-> cl, instructions |-> "", previous |-> prev,
     example |-> ExampleHeaders(cl)]

\* What ollama_client.chat raises when the call fails.
TransportErrors == {"ConnectionError", "ResponseError", "TimeoutError"}

ExtractionError == "Exception: Failed to extract and format data from image"

\* The texts the model answers with.
Responses ==
    {ResultObject,
     Fence \o <<"json", NL>> \o ResultObject \o <<NL>> \o Fence,
     <<"x", SP>> \o ResultObject \o <<SP, "x">>,
     <<SP>> \o ResultObject \o <<NL>>,
     <<"{", "}">>, NestedObject(0),
     <<"[", "1", "]">>, <<"[", "]">>, <<"1">>, <<"0">>,
     <<Q, "x", Q>>, <<Q, Q>>, <<"true">>, <<"false">>, <<"null">>,
     <<"{", Q, "k", Q, ":", "1">>, <<"x">>, <<>>}

NoOutcome == [kind |-> "none", value |-> None, error |-> ""]
Returned(v) == [kind |-> "returned", value |-> v, error |-> ""]
Raised(e) == [kind |-> "raised", value |-> None, error |-> e]

NoHttp == [status |-> 0, body |-> None, error |-> ""]

\* One chat call as the client saw it.
ChatOk(prompt, images, resp) ==
    [prompt |-> prompt, images |-> images, result |-> "ok", text |-> resp]
ChatFailed(prompt, images, err) ==
    [prompt |-> prompt, images |-> images, result |-> err, text |-> <<>>]

ExtractIdle ==
    /\ pc = "idle"
    /\ image_data = None
    /\ columns = <<>>
    /\ instructions = ""
    /\ column_list = <<>>
    /\ auto_detect_mode = FALSE
    /\ extraction_prompt = NoPrompt
    /\ content = <<>>
    /\ correction_prompt = NoPrompt
    /\ corrected_content = <<>>
    /\ formatted_data = None
    /\ chat_log = <<>>
    /\ parses = 0
    /\ outcome = NoOutcome
    /\ http = NoHttp

\* The image as extract_and_format_csv gets it: a data URL loses its prefix.
ImageData(img) ==
    IF img[1] = "data:image/png;base64" THEN split(img)[2] ELSE img

\* POST /extract up to the first model call: the route reads the request,
\* extract_and_format_csv builds the prompt.
Extract ==
    \E img \in ImageInputs, cols \in ColumnInputs, instr \in InstructionInputs :
        /\ pc = "idle"
        /\ columns' = cols
        /\ instructions' = instr
        /\ IF img = None
           THEN \* image_data.startswith on None
                /\ outcome' = Raised("AttributeError")
                /\ pc' = "done"
                /\ UNCHANGED <<image_data, column_list, auto_detect_mode,
                               extraction_prompt>>
           ELSE /\ image_data' = ImageData(img)
                /\ column_list' = ColumnList(cols)
                /\ auto_detect_mode' = (Len(ColumnList(cols)) = 0)
                /\ IF PromptBuilds(ColumnList(cols))
                   THEN /\ extraction_prompt' =
                               ExtractionPrompt(ColumnList(cols), instr)
                        /\ pc' = "call1"
                        /\ UNCHANGED outcome
                   ELSE /\ outcome' = Raised("IndexError")
                        /\ pc' = "done"
                        /\ UNCHANGED extraction_prompt
        /\ UNCHANGED <<content, correction_prompt, corrected_content,
                       formatted_data, chat_log, parses, http>>
        /\ UNCHANGED <<parseVars, saveVars>>

\* The first chat call returns resp: strip, parse, and either return the
\* parsed data or build the correction prompt.
FirstCallReturns ==
    \E resp \in Responses :
        /\ pc = "call1"
        /\ chat_log' = Append(chat_log, ChatOk(extraction_prompt, TRUE, resp))
        /\ content' = strip(resp)
        /\ formatted_data' = try_extract_json(strip(resp))
        /\ parses' = parses + 1
        /\ IF ~Truthy(try_extract_json(strip(resp)))
           THEN /\ correction_prompt' =
                       CorrectionPrompt(column_list, strip(resp))
                /\ pc' = "call2"
                /\ UNCHANGED outcome
           ELSE /\ outcome' = Returned(try_extract_json(strip(resp)))
                /\ pc' = "done"
                /\ UNCHANGED correction_prompt
        /\ UNCHANGED <<image_data, columns, instructions, column_list,
                       auto_detect_mode, extraction_prompt,
                       corrected_content, http>>
        /\ UNCHANGED <<parseVars, saveVars>>

\* FirstCallFails with the error caught and the correction call tried.
FirstCallFailsThenCorrects ==
    \E err \in TransportErrors :
        /\ pc = "call1"
        /\ chat_log' = Append(chat_log, ChatFailed(extraction_prompt, TRUE, err))
        /\ correction_prompt' = CorrectionPrompt(column_list, <<>>)
        /\ pc' = "call2"
        /\ UNCHANGED <<image_data, columns, instructions, column_list,
                       auto_detect_mode, extraction_prompt, content,
                       corrected_content, formatted_data, outcome,
                       parses, http>>
        /\ UNCHANGED <<parseVars, saveVars>>

\* The first chat call raises: nothing catches it in extract_and_format_csv.
FirstCallFails ==
    \E err \in TransportErrors :
        /\ pc = "call1"
        /\ chat_log' = Append(chat_log, ChatFailed(extraction_prompt, TRUE, err))
        /\ outcome' = Raised(err)
        /\ pc' = "done"
        /\ UNCHANGED <<image_data, columns, instructions, column_list,
                       auto_detect_mode, extraction_prompt, content,
                       correction_prompt, corrected_content, formatted_data,
                       parses, http>>
        /\ UNCHANGED <<parseVars, saveVars>>

\* CorrectionReturns with the correction repeated while nothing parses.
CorrectionReturnsAndRetries ==
    \E resp \in Responses :
        /\ pc = "call2"
        /\ chat_log' = Append(chat_log, ChatOk(correction_prompt, FALSE, resp))
        /\ corrected_content' = strip(resp)
        /\ formatted_data' = try_extract_json(strip(resp))
        /\ parses' = parses + 1
        /\ IF Truthy(try_extract_json(strip(resp)))
           THEN /\ outcome' = Returned(try_extract_json(strip(resp)))
                /\ pc' = "done"
           ELSE /\ pc' = "call2"
                /\ UNCHANGED outcome
        /\ UNCHANGED <<image_data, columns, instructions, column_list,
                       auto_detect_mode, extraction_prompt, content,
                       correction_prompt, http>>
        /\ UNCHANGED <<parseVars, saveVars>>

\* CorrectionReturns without the final check: whatever was parsed is returned.
CorrectionReturnsUnchecked ==
    \E resp \in Responses :
        /\ pc = "call2"
        /\ chat_log' = Append(chat_log, ChatOk(correction_prompt, FALSE, resp))
        /\ corrected_content' = strip(resp)
        /\ formatted_data' = try_extract_json(strip(resp))
        /\ parses' = parses + 1
        /\ outcome' = Returned(try_extract_json(strip(resp)))
        /\ pc' = "done"
        /\ UNCHANGED <<image_data, columns, instructions, column_list,
                       auto_detect_mode, extraction_prompt, content,
                       correction_prompt, http>>
        /\ UNCHANGED <<parseVars, saveVars>>

\* The correction call (no image) returns resp: strip, parse, then return
\* the parsed data if it is truthy and raise otherwise.
CorrectionReturns ==
    \E resp \in Responses :
        /\ pc = "call2"
        /\ chat_log' = Append(chat_log, ChatOk(correction_prompt, FALSE, resp))
        /\ corrected_content' = strip(resp)
        /\ formatted_data' = try_extract_json(strip(resp))
        /\ parses' = parses + 1
        /\ outcome' = IF Truthy(try_extract_json(strip(resp)))
                      THEN Returned(try_extract_json(strip(resp)))
                      ELSE Raised(ExtractionError)
        /\ pc' = "done"
        /\ UNCHANGED <<image_data, columns, instructions, column_list,
                       auto_detect_mode, extraction_prompt, content,
                       correction_prompt, http>>
        /\ UNCHANGED <<parseVars, saveVars>>

\* The correction call raises.
CorrectionFails ==
    \E err \in TransportErrors :
        /\ pc = "call2"
        /\ chat_log' = Append(chat_log, ChatFailed(correction_prompt, FALSE, err))
        /\ outcome' = Raised(err)
        /\ pc' = "done"
        /\ UNCHANGED <<image_data, columns, instructions, column_list,
                       auto_detect_mode, extraction_prompt, content,
                       correction_prompt, corrected_content, formatted_data,
                       parses, http>>
        /\ UNCHANGED <<parseVars, saveVars>>

\* The route answers: jsonify(formatted_data), or the caught exception's
\* text with status 500.
Respond ==
    /\ pc = "done"
    /\ http' = IF outcome.kind = "returned"
               THEN [status |-> 200, body |-> outcome.value, error |-> ""]
               ELSE [status |-> 500, body |-> None, error |-> outcome.error]
    /\ pc' = "responded"
    /\ UNCHANGED <<image_data, columns, instructions, column_list,
                   auto_detect_mode, extraction_prompt, content,
                   correction_prompt, corrected_content, formatted_data,
                   chat_log, parses, outcome>>
    /\ UNCHANGED <<parseVars, saveVars>>

(***************************************************************************)
(* POST /save, appending to data/results.csv.  Flask serves each request   *)
(* in a thread of its own, so the steps of two saves interleave.  A line   *)
(* of the file is a record; a cell is <<save, row, column>>, a header cell *)
(* <<0, 0, column>>.                                                       *)
(***************************************************************************)
Savers == {1, 2}

\* The key orders a request's row-mappings may come in (one column set).
KeyOrders == {<<"a", "b">>, <<"b", "a">>}

HeaderLine(fields) ==
    [kind |-> "header", cells |-> [i \in 1..Len(fields) |-> <<0, 0, fields[i]>>]]

\* writer.writerow(row): the row's values in the order of fieldnames.
RowLine(r, i, fields) ==
    [kind |-> "row", cells |-> [j \in 1..Len(fields) |-> <<r, i, fields[j]>>]]

SaveIdle ==
    /\ csv_exists = FALSE
    /\ csv_file = <<>>
    /\ spc = [r \in Savers |-> "idle"]
    /\ rows = [r \in Savers |-> 0]
    /\ fieldnames = [r \in Savers |-> <<>>]
    /\ file_exists = [r \in Savers |-> FALSE]
    /\ buffer = [r \in Savers |-> <<>>]
    /\ written = [r \in Savers |-> 0]

\* The results file is absent, or present and empty.
SaveInit ==
    /\ csv_exists \in BOOLEAN
    /\ csv_file = <<>>
    /\ spc = [r \in Savers |-> "idle"]
    /\ rows = [r \in Savers |-> 0]
    /\ fieldnames = [r \in Savers |-> <<>>]
    /\ file_exists = [r \in Savers |-> FALSE]
    /\ buffer = [r \in Savers |-> <<>>]
    /\ written = [r \in Savers |-> 0]

\* The request arrives with n rows; file_exists = os.path.exists(csv_file).
SaveBegin(r) ==
    \E n \in 0..MaxRows, order \in KeyOrders :
        /\ spc[r] = "idle"
        /\ rows' = [rows EXCEPT ![r] = n]
        /\ fieldnames' = [fieldnames EXCEPT ![r] = order]
        /\ file_exists' = [file_exists EXCEPT ![r] = csv_exists]
        /\ spc' = [spc EXCEPT ![r] = "open"]
        /\ UNCHANGED <<csv_exists, csv_file, buffer, written>>
        /\ UNCHANGED <<parseVars, extractVars>>

\* open(csv_file, 'a'): the file exists from here on.
SaveOpen(r) ==
    /\ spc[r] = "open"
    /\ csv_exists' = TRUE
    /\ spc' = [spc EXCEPT ![r] = "header"]
    /\ UNCHANGED <<csv_file, rows, fieldnames, file_exists, buffer, written>>
    /\ UNCHANGED <<parseVars, extractVars>>

\* Whether this save writes the header:
\* not file_exists or os.path.getsize(csv_file) == 0
NeedsHeader(r) == ~file_exists[r] \/ Len(csv_file) = 0

\* "if rows:" and the header decision; the header goes to the buffer.
SaveHeader(r) ==
    /\ spc[r] = "header"
    /\ IF rows[r] = 0
       THEN /\ spc' = [spc EXCEPT ![r] = "close"]
            /\ UNCHANGED buffer
       ELSE /\ buffer' = [buffer EXCEPT ![r] =
                            IF NeedsHeader(r)
                            THEN Append(@, HeaderLine(fieldnames[r]))
                            ELSE @]
            /\ spc' = [spc EXCEPT ![r] = "rows"]
    /\ UNCHANGED <<csv_exists, csv_file, rows, fieldnames, file_exists, written>>
    /\ UNCHANGED <<parseVars, extractVars>>

\* writer.writerow(row) for the next row; the line goes to the buffer.
SaveRow(r) ==
    /\ spc[r] = "rows"
    /\ written[r] < rows[r]
    /\ buffer' = [buffer EXCEPT ![r] =
                     Append(@, RowLine(r, written[r] + 1, fieldnames[r]))]
    /\ written' = [written EXCEPT ![r] = @ + 1]
    /\ UNCHANGED <<csv_exists, csv_file, spc, rows, fieldnames, file_exists>>
    /\ UNCHANGED <<parseVars, extractVars>>

\* The file object's buffer fills before the rows are all written: what
\* it holds is appended to the file.
SaveFlush(r) ==
    /\ spc[r] = "rows"
    /\ written[r] < rows[r]
    /\ buffer[r] # <<>>
    /\ csv_file' = csv_file \o buffer[r]
    /\ buffer' = [buffer EXCEPT ![r] = <<>>]
    /\ UNCHANGED <<csv_exists, spc, rows, fieldnames, file_exists, written>>
    /\ UNCHANGED <<parseVars, extractVars>>

\* The with block ends: the buffer is appended to the file, the file closed.
SaveClose(r) ==
    /\ spc[r] \in {"rows", "close"}
    /\ written[r] = rows[r]
    /\ csv_file' = csv_file \o buffer[r]
    /\ buffer' = [buffer EXCEPT ![r] = <<>>]
    /\ spc' = [spc EXCEPT ![r] = "done"]
    /\ UNCHANGED <<csv_exists, rows, fieldnames, file_exists, written>>
    /\ UNCHANGED <<parseVars, extractVars>>

(***************************************************************************)
(* Specifications: one /extract request; try_extract_json on a text; two   *)
(* /save requests.                                                         *)
(***************************************************************************)
Init == ParseIdle /\ ExtractIdle /\ SaveIdle

Next ==
    \/ Extract
    \/ FirstCallReturns
    \/ FirstCallFails
    \/ CorrectionReturns
    \/ CorrectionFails
    \/ Respond

Spec == Init /\ [][Next]_vars

InitParser == ParseInit /\ ExtractIdle /\ SaveIdle

NextParser == Parse

SpecParser == InitParser /\ [][NextParser]_vars

InitSave == ParseIdle /\ ExtractIdle /\ SaveInit

NextSave ==
    \E r \in Savers :
        \/ SaveBegin(r)
        \/ SaveOpen(r)
        \/ SaveHeader(r)
        \/ SaveRow(r)
        \/ SaveFlush(r)
        \/ SaveClose(r)

SpecSave == InitSave /\ [][NextSave]_vars

(***************************************************************************)
(* Vocabulary of the properties.                                           *)
(***************************************************************************)
Finished == pc \in {"done", "responded"}

\* extract_and_format_csv was entered (the route had an image to pass on).
Called == pc # "idle" /\ image_data # None

\* None of the three tries of try_extract_json decodes anything from t.
NothingDecodes(t) ==
    /\ ~FirstDecoded(findall(t, 1), 1).ok
    /\ ~BraceScan(t).ok
    /\ ~WholeText(t).ok

\* The first and the second chat call both returned a text.
BothCallsReturned ==
    /\ Len(chat_log) = 2
    /\ chat_log[1].result = "ok"
    /\ chat_log[2].result = "ok"

Range(f) == {f[i] : i \in DOMAIN f}

RECURSIVE Members(_, _)
\* The members [key, val] of the object text v, from index i on.
Members(v, i) ==
    IF v[i] = "}" THEN <<>>
    ELSE LET key == ParseString(v, i)
             val == ParseValue(v, key.end + 1)
             rest == IF v[val.end] = "," THEN val.end + 1 ELSE val.end
         IN  <<[key |-> key.val, val |-> val.val]>> \o Members(v, rest)

RECURSIVE Elements(_, _)
\* The elements of the array text v, from index i on.
Elements(v, i) ==
    IF v[i] = "]" THEN <<>>
    ELSE LET val == ParseValue(v, i)
             rest == IF v[val.end] = "," THEN val.end + 1 ELSE val.end
         IN  <<val.val>> \o Elements(v, rest)

IsObject(v) == v # None /\ v[1] = "{"
IsArray(v) == v # None /\ v[1] = "["

\* The ExtractionResult shape: an object with a "data" array of row objects
\* and a "confidence" array.
IsExtractionResult(v) ==
    /\ IsObject(v)
    /\ \E m \in Range(Members(v, 2)) :
           /\ m.key = <<Q, "data", Q>>
           /\ IsArray(m.val)
           /\ \A e \in Range(Elements(m.val, 2)) : IsObject(e)
    /\ \E m \in Range(Members(v, 2)) :
           m.key = <<Q, "confidence", Q>> /\ IsArray(m.val)

\* Fences that open a line: the fenced code blocks of Markdown.  Three
\* backticks in mid-line are prose.
FenceLines(s) ==
    {i \in 1..Len(s) : IsFence(s, i) /\ (i = 1 \/ s[i - 1] = NL)}

\* What the block between the fences at i and j holds, its "json" tag aside.
BlockBody(s, i, j) ==
    SubSeq(s, IF s[i + 3] = "json" THEN i + 4 ELSE i + 3, j - 1)

Lowest(S) == CHOOSE x \in S : \A y \in S : x <= y
Highest(S) == CHOOSE x \in S : \A y \in S : x >= y

\* The text has exactly one fenced block, and it holds a well-formed object.
SingleFencedObject(s) ==
    /\ Cardinality(FenceLines(s)) = 2
    /\ LET body == BlockBody(s, Lowest(FenceLines(s)), Highest(FenceLines(s)))
       IN  json_loads(body).ok /\ IsObject(json_loads(body).val)

FencedObject(s) ==
    json_loads(BlockBody(s, Lowest(FenceLines(s)), Highest(FenceLines(s)))).val

\* The lines of save r as its writer writes them.
RowLines(r) == [i \in 1..rows[r] |-> RowLine(r, i, fieldnames[r])]

(***************************************************************************)
(* The claims.                                                             *)
(***************************************************************************)

\* C1: whatever the model answers, and whether a call returns or raises, an
\* extraction request never issues more than two chat calls, and none once
\* it has returned or raised.
C1_AtMostTwoCalls ==
    /\ Len(chat_log) <= 2
    /\ (Finished /\ Called) => outcome.kind # "none"

\* A request that used both calls and ended.
C1_Witness == Finished /\ Len(chat_log) = 2

\* C2 (as claimed): when nothing decodes from the first response and the
\* correction response is well-formed JSON, the request returns the value
\* decoded from the correction response, after exactly two calls.
C2_SecondResponseReturned ==
    ( /\ BothCallsReturned
      /\ NothingDecodes(strip(chat_log[1].text))
      /\ json_loads(chat_log[2].text).ok )
    => /\ Finished
       /\ outcome = Returned(json_loads(chat_log[2].text).val)

\* C3: when nothing decodes from the first response nor from the correction
\* response, the request raises the extraction failure, returns nothing,
\* and has issued exactly two calls.
C3_BothMalformedRaises ==
    ( /\ Len(chat_log) >= 2
      /\ chat_log[1].result = "ok"
      /\ chat_log[2].result = "ok"
      /\ NothingDecodes(strip(chat_log[1].text))
      /\ NothingDecodes(strip(chat_log[2].text)) )
    => /\ Finished
       /\ Len(chat_log) = 2
       /\ outcome = Raised(ExtractionError)

\* Both responses were undecodable and the request has ended.
C3_Witness ==
    /\ BothCallsReturned
    /\ NothingDecodes(strip(chat_log[1].text))
    /\ NothingDecodes(strip(chat_log[2].text))
    /\ pc = "done"

\* C4 (as claimed): for empty columns and for every non-empty column list,
\* the prompt is built and the first call is reached; in fixed mode the
\* prompt and its example rows name every caller column, in auto mode the
\* prompt names none and its example rows use the placeholder headers.
C4_PromptNamesEveryColumn ==
    Called =>
        /\ extraction_prompt.kind = "extraction"
        /\ pc = "call1" \/ Len(chat_log) >= 1
        /\ \A i \in 1..Len(ColumnList(columns)) :
               /\ ColumnList(columns)[i] \in Range(extraction_prompt.required)
               /\ ColumnList(columns)[i] \in Range(extraction_prompt.example)
        /\ ColumnList(columns) = <<>> =>
               /\ extraction_prompt.required = <<>>
               /\ extraction_prompt.example = PlaceholderHeaders

\* C5 (as claimed): whatever extract_and_format_csv returns is an object of
\* the ExtractionResult shape.
C5_ReturnsExtractionResult ==
    outcome.kind = "returned" => IsExtractionResult(outcome.value)

\* C6: when the first chat call raises a transport error, no correction
\* call is issued, nothing is parsed, and that same error is what
\* extract_and_format_csv raises; the call count is one.
C6_FirstCallFailureAborts ==
    (Len(chat_log) >= 1 /\ chat_log[1].result \in TransportErrors)
    => /\ Finished
       /\ Len(chat_log) = 1
       /\ parses = 0
       /\ formatted_data = None
       /\ outcome = Raised(chat_log[1].result)

\* The first call has raised and the request has ended.
C6_Witness ==
    /\ pc = "done"
    /\ Len(chat_log) = 1
    /\ chat_log[1].result \in TransportErrors

\* C7 (as claimed): once two saves with one column set and at least one row
\* each have ended, on a file that was absent or empty, the file is one
\* header line, then all rows of one save in order, then all rows of the
\* other in order.
C7_OneHeaderRowsInOrder ==
    (\A r \in Savers : spc[r] = "done" /\ rows[r] >= 1)
    => \E a \in Savers, b \in Savers :
           /\ a # b
           /\ csv_file = <<HeaderLine(fieldnames[a])>> \o RowLines(a)
                             \o RowLines(b)

\* C8 (as claimed): for a text with exactly one fenced block holding a
\* well-formed JSON object, try_extract_json returns that object, whatever
\* the prose around the block and whatever the object.
C8_FencedObjectReturned ==
    (ppc = "parsed" /\ SingleFencedObject(text)) => parsed = FencedObject(text)

\* C9 (as claimed): for a text without "{" and without "}",
\* try_extract_json returns None.
C9_NoBracesNone ==
    (ppc = "parsed" /\ find(text, "{") = 0 /\ find(text, "}") = 0)
    => parsed = None

\* C10 (as claimed): whenever try_extract_json yields a value for the first
\* response, that value is returned after exactly one call; a correction
\* call is issued only when it yields nothing.
C10_ParsedFirstResponseReturned ==
    /\ ( /\ Len(chat_log) >= 1
         /\ chat_log[1].result = "ok"
         /\ try_extract_json(strip(chat_log[1].text)) # None )
       => /\ Finished
          /\ Len(chat_log) = 1
          /\ outcome = Returned(try_extract_json(strip(chat_log[1].text)))
    /\ Len(chat_log) = 2 => try_extract_json(content) = None

\* What a raised failure holds, as text: the exception's message, which is
\* also what the route puts in its 500 answer (str(e)).
FailureText(o) == <<o.error>>

\* The text needle occurs in the text hay.
Contains(hay, needle) ==
    \E i \in 1..(Len(hay) + 1) :
        /\ i + Len(needle) - 1 <= Len(hay)
        /\ SubSeq(hay, i, i + Len(needle) - 1) = needle

\* C11 (as claimed): when try_extract_json yields nothing for the first
\* response and for the correction response, the request raises a failure
\* of its own kind that holds the correction response's text, and the
\* route's answer lets the caller read that text.
C11_FailureCarriesLastText ==
    ( /\ BothCallsReturned
      /\ try_extract_json(content) = None
      /\ try_extract_json(corrected_content) = None
      /\ Finished )
    => /\ outcome.kind = "raised"
       /\ outcome.error \notin TransportErrors
       /\ Contains(FailureText(outcome), corrected_content)
       /\ pc = "responded" => Contains(<<http.error>>, corrected_content)

=============================================================================
